---- MODULE Spec2Model ----
(***************************************************************************)
(* Quote dispatch and selection of the UniswapX parameterization API:      *)
(* the S3 circuit-breaker configuration provider (admission cache), the    *)
(* WebhookQuoter (eligibility, fan-out, classification) and the quote      *)
(* handler (best-quote reduction).                                         *)
(*                                                                         *)
(* Numbers: fade rates are in hundredths (0.4 is 40); time is in ms.       *)
(* JavaScript values: an object is a function from its keys, a missing     *)
(* key reads as Undefined, null is Null.                                   *)
(***************************************************************************)
EXTENDS Integers, Sequences, FiniteSets, TLC

VARIABLES
  s3doc,                 \* body of the S3 object (JSON text)
  putLog,                \* history: the PutObject calls made (see PutRecord)
  fillers,               \* S3CircuitBreakerConfigurationProvider.fillers
  lastUpdatedTimestamp,  \* S3CircuitBreakerConfigurationProvider.lastUpdatedTimestamp
  now,                   \* Date.now()
  directory,             \* what webhookProvider.getEndpoints() returns
  eligPc,                \* position of the getEligibleEndpoints call
  s3Res,                 \* the GetObject response a fetch is parsing
  gpc,                   \* per direct caller: position of its getConfigurations call
  gRes,                  \* per direct caller: the GetObject response its fetch is parsing
  config,                \* getEligibleEndpoints: the snapshot it used
  endpoints,             \* the list getEligibleEndpoints returned
  pc,                    \* position of handleRequest / quote
  request,               \* the QuoteRequest being served
  fpc,                   \* per endpoint: position of fetchQuote
  primary,               \* per endpoint: settlement of the primary axios.post
  opposite,              \* per endpoint: settlement of the opposing axios.post
  events,                \* per endpoint: analytics events handed to sendAnalyticsEvent
  ret,                   \* per endpoint: what fetchQuote returned
  httpCalls,             \* the axios.post calls made for this request
  result                 \* what handleRequest produced

vars == <<s3doc, putLog, fillers, lastUpdatedTimestamp, now, directory, gpc, gRes,
          eligPc, s3Res,
          config, endpoints, pc, request, fpc, primary, opposite, events, ret,
          httpCalls, result>>

cacheVars == <<fillers, lastUpdatedTimestamp>>
callVars == <<gpc, gRes>>
eligVars == <<eligPc, s3Res, config, endpoints>>
fetchVars == <<fpc, primary, opposite, events, ret, httpCalls>>

----------------------------------------------------------------------------
(* Bounds and program constants *)

MaxTicks == 3

UPDATE_PERIOD_MS == 300000
FILL_RATE_THRESHOLD == 40

TickSteps == {1, UPDATE_PERIOD_MS}

Undefined == "undefined"

\* values that may be absent are records told apart by their kind
Pending == [kind |-> "pending"]
None == [kind |-> "none"]
Null == [kind |-> "null"]
NoConfig == [state |-> "none", snapshot |-> <<>>]
Unavailable == [state |-> "unavailable", snapshot |-> <<>>]
Fetched(cfg) == [state |-> "available", snapshot |-> cfg]
NoRequest == [requestId |-> "none", swapper |-> "none", type |-> "none", tokenInChainId |-> 0]

Range(s) == {s[i] : i \in DOMAIN s}

----------------------------------------------------------------------------
(* JSON: an object is written as its <<key, value>> pairs, in insertion    *)
(* order; parsing gives back the object with those keys.                   *)

JSONstringifyObject(keys, obj) == [i \in DOMAIN keys |-> <<keys[i], obj[keys[i]]>>]

JSONparseObject(pairs) ==
  [k \in {p[1] : p \in Range(pairs)} |-> (CHOOSE p \in Range(pairs) : p[1] = k)[2]]

JSONparse(body) == [i \in DOMAIN body |-> JSONparseObject(body[i])]

\* property reads of a CircuitBreakerConfiguration: c.hash, c?.enabled
HashOf(c) == IF "hash" \in DOMAIN c THEN c["hash"] ELSE Undefined
EnabledOf(c) == IF "enabled" \in DOMAIN c THEN c["enabled"] ELSE FALSE

----------------------------------------------------------------------------
(* The endpoint directory and the injected configuration *)

EndpointA == [name |-> "A", hash |-> "hA", endpoint |-> "urlA"]
EndpointB == [name |-> "B", hash |-> "hB", endpoint |-> "urlB", chainIds |-> {1}]
EndpointC == [name |-> "C", hash |-> "hC", endpoint |-> "urlC", chainIds |-> {1}]
AllEndpoints == {EndpointA, EndpointB, EndpointC}
Hashes == {e.hash : e \in AllEndpoints}

\* the constructor's _allow_list
ALLOW_LIST == {"hB"}

Swappers == {"s1", "s2"}
\* complianceProvider.getEndpointToExcludedAddrsMap(): endpoint -> excluded swappers
endpointToAddrsMap == [u \in {"urlA"} |-> {"s1"}]

----------------------------------------------------------------------------
(* S3CircuitBreakerConfigurationProvider *)

ConfigKeys == <<"name", "fadeRate", "enabled">>

putConfigurationsBodyMerge(fillRates) ==
  s3doc \o [i \in DOMAIN fillRates |->
             JSONstringifyObject(ConfigKeys,
               [name |-> fillRates[i][1],
                fadeRate |-> fillRates[i][2],
                enabled |-> fillRates[i][2] < FILL_RATE_THRESHOLD])]

putConfigurationsBodyInclusive(fillRates) ==
  [i \in DOMAIN fillRates |->
     JSONstringifyObject(ConfigKeys,
       [name |-> fillRates[i][1],
        fadeRate |-> fillRates[i][2],
        enabled |-> fillRates[i][2] <= FILL_RATE_THRESHOLD])]

\* putConfigurations: the body it hands to PutObject, from the entries of
\* fillRates in iteration order
putConfigurationsBody(fillRates) ==
  [i \in DOMAIN fillRates |->
     JSONstringifyObject(ConfigKeys,
       [name |-> fillRates[i][1],
        fadeRate |-> fillRates[i][2],
        enabled |-> fillRates[i][2] < FILL_RATE_THRESHOLD])]

\* history of a call: its argument, whether the object held records before it,
\* and the body it stored
PutRecord(fillRates, before, after) ==
  [fillRates |-> fillRates, replaced |-> before # <<>>, body |-> after]

putConfigurations(fillRates) ==
  /\ s3doc' = putConfigurationsBody(fillRates)
  /\ putLog' = putLog \cup {PutRecord(fillRates, s3doc, s3doc')}
  /\ UNCHANGED <<cacheVars, now, directory, callVars, eligVars, pc, request, fetchVars, result>>

\* the clock steps taken to reach time t
TicksTaken(t) == (t \div UPDATE_PERIOD_MS) + (t % UPDATE_PERIOD_MS)

\* Date.now() moves on
Tick(d) ==
  /\ TicksTaken(now) < MaxTicks
  /\ now' = now + d
  /\ UNCHANGED <<s3doc, putLog, cacheVars, directory, callVars, eligVars, pc, request, fetchVars, result>>

NeedsRefetchInclusive ==
  \/ Len(fillers) = 0
  \/ now - lastUpdatedTimestamp >= UPDATE_PERIOD_MS

\* getConfigurations: whether it refetches
NeedsRefetch ==
  \/ Len(fillers) = 0
  \/ now - lastUpdatedTimestamp > UPDATE_PERIOD_MS

\* the callers that share one provider and call getConfigurations directly
Callers == {"c1", "c2"}

\* getConfigurations, up to its first await: the refetch test
getConfigurations(c) ==
  /\ gpc[c] \in {"idle", "returned", "rejected"}
  /\ gpc' = [gpc EXCEPT ![c] = IF NeedsRefetch THEN "fetching" ELSE "returned"]
  /\ UNCHANGED <<s3doc, putLog, cacheVars, now, directory, gRes, eligVars, pc, request,
                 fetchVars, result>>

\* fetchConfigurations of caller c: client.send(GetObjectCommand) answers
clientSendResolves(c) ==
  /\ gpc[c] = "fetching"
  /\ gRes' = [gRes EXCEPT ![c] = s3doc]
  /\ gpc' = [gpc EXCEPT ![c] = "parsing"]
  /\ UNCHANGED <<s3doc, putLog, cacheVars, now, directory, eligVars, pc, request,
                 fetchVars, result>>

\* fetchConfigurations of caller c: client.send throws; getConfigurations
\* rejects before any assignment
clientSendRejects(c) ==
  /\ gpc[c] = "fetching"
  /\ gpc' = [gpc EXCEPT ![c] = "rejected"]
  /\ UNCHANGED <<s3doc, putLog, cacheVars, now, directory, gRes, eligVars, pc, request,
                 fetchVars, result>>

\* fetchConfigurations of caller c: transformToString resolved,
\* this.fillers = JSON.parse(...)
fetchConfigurationsAssigns(c) ==
  /\ gpc[c] = "parsing"
  /\ fillers' = JSONparse(gRes[c])
  /\ gRes' = [gRes EXCEPT ![c] = <<>>]
  /\ gpc' = [gpc EXCEPT ![c] = "fetched"]
  /\ UNCHANGED <<s3doc, putLog, lastUpdatedTimestamp, now, directory, eligVars, pc,
                 request, fetchVars, result>>

\* getConfigurations of caller c resumes after await fetchConfigurations():
\* lastUpdatedTimestamp = Date.now(); return this.fillers
getConfigurationsResumes(c) ==
  /\ gpc[c] = "fetched"
  /\ lastUpdatedTimestamp' = now
  /\ gpc' = [gpc EXCEPT ![c] = "returned"]
  /\ UNCHANGED <<s3doc, putLog, fillers, now, directory, gRes, eligVars, pc, request,
                 fetchVars, result>>

----------------------------------------------------------------------------
(* WebhookQuoter.getEligibleEndpoints *)

\* new Map(config.map((c) => [c.hash, c])): has, and get (the last entry wins)
fillerToConfigMapHas(cfg, h) == \E i \in DOMAIN cfg : HashOf(cfg[i]) = h
fillerToConfigMapGet(cfg, h) ==
  cfg[CHOOSE i \in DOMAIN cfg :
        /\ HashOf(cfg[i]) = h
        /\ \A j \in DOMAIN cfg : HashOf(cfg[j]) = h => j <= i]

EndpointEnabledDropAllowList(cfg, e) ==
  \/ (fillerToConfigMapHas(cfg, e.hash) /\ EnabledOf(fillerToConfigMapGet(cfg, e.hash)))
  \/ ~fillerToConfigMapHas(cfg, e.hash)

EndpointEnabledIgnoreFlag(cfg, e) ==
  \/ e.hash \in ALLOW_LIST
  \/ fillerToConfigMapHas(cfg, e.hash)
  \/ ~fillerToConfigMapHas(cfg, e.hash)

\* the condition of the forEach body
EndpointEnabled(cfg, e) ==
  \/ e.hash \in ALLOW_LIST
  \/ (fillerToConfigMapHas(cfg, e.hash) /\ EnabledOf(fillerToConfigMapGet(cfg, e.hash)))
  \/ ~fillerToConfigMapHas(cfg, e.hash)

enabledEndpoints(all, cfg) ==
  LET keep(e) == EndpointEnabled(cfg, e) IN SelectSeq(all, keep)

OnConfigErrorReturnNone(all) == <<>>

\* the catch block: default to returning all
OnConfigError(all) == all

\* getConfigurations returned cfg: the rest of the try block
ReturnEligible(cfg) ==
  /\ config' = Fetched(cfg)
  /\ endpoints' = enabledEndpoints(directory, cfg)
  /\ eligPc' = "returned"

\* getEndpoints, then getConfigurations up to its first await
BeginGetEligible ==
  IF NeedsRefetch
  THEN /\ eligPc' = "fetching"
       /\ config' = NoConfig
       /\ endpoints' = <<>>
       /\ UNCHANGED s3Res
  ELSE /\ ReturnEligible(fillers)
       /\ UNCHANGED s3Res

\* getEligibleEndpoints called on its own
getEligibleEndpoints ==
  /\ pc = "idle"
  /\ eligPc \in {"none", "returned"}
  /\ BeginGetEligible
  /\ UNCHANGED <<s3doc, putLog, cacheVars, now, directory, callVars, pc, request, fetchVars, result>>

\* fetchConfigurations: client.send(GetObjectCommand) answers with the object
S3GetObjectReturns ==
  /\ eligPc = "fetching"
  /\ s3Res' = s3doc
  /\ eligPc' = "parsing"
  /\ UNCHANGED <<s3doc, putLog, cacheVars, now, directory, callVars, config, endpoints, pc, request,
                 fetchVars, result>>

\* fetchConfigurations: transformToString, JSON.parse, this.fillers = ...; then
\* getConfigurations sets lastUpdatedTimestamp and returns this.fillers
fetchConfigurationsDone ==
  /\ eligPc = "parsing"
  /\ fillers' = JSONparse(s3Res)
  /\ lastUpdatedTimestamp' = now
  /\ s3Res' = <<>>
  /\ ReturnEligible(JSONparse(s3Res))
  /\ UNCHANGED <<s3doc, putLog, now, directory, callVars, pc, request, fetchVars, result>>

fetchConfigurationsThrowsStampsTime ==
  /\ eligPc = "fetching"
  /\ config' = Unavailable
  /\ endpoints' = OnConfigError(directory)
  /\ eligPc' = "returned"
  /\ lastUpdatedTimestamp' = now
  /\ UNCHANGED <<s3doc, putLog, fillers, now, directory, callVars, s3Res, pc, request, fetchVars, result>>

\* client.send throws (no such key, network): getConfigurations rejects and
\* getEligibleEndpoints takes its catch block
fetchConfigurationsThrows ==
  /\ eligPc = "fetching"
  /\ config' = Unavailable
  /\ endpoints' = OnConfigError(directory)
  /\ eligPc' = "returned"
  /\ UNCHANGED <<s3doc, putLog, cacheVars, now, directory, callVars, s3Res, pc, request, fetchVars, result>>

----------------------------------------------------------------------------
(* Webhook responses *)

Response(status, requestId, amountIn, amountOut, valid) ==
  [kind |-> "response", status |-> status,
   data |-> [requestId |-> requestId, amountIn |-> amountIn,
             amountOut |-> amountOut, valid |-> valid]]

\* axios.post rejects with an AxiosError carrying a code
AxiosError(code) == [kind |-> "AxiosError", code |-> code]
\* anything else that is thrown
OtherError == [kind |-> "Error"]

\* QuoteResponse.fromRFQ: the parsed response and the validation of the body
fromRFQ(req, data, type) ==
  [response |-> [kind |-> "QuoteResponse",
                 requestId |-> data.requestId,
                 amountIn |-> data.amountIn,
                 amountOut |-> data.amountOut,
                 swapper |-> req.swapper],
   validation |-> [error |-> ~data.valid]]

\* request.toOpposingRequest(): the same request with the direction flipped
toOpposingRequest(req) ==
  [req EXCEPT !.type = IF req.type = "EXACT_INPUT" THEN "EXACT_OUTPUT" ELSE "EXACT_INPUT"]

isNonQuote(req, hookResponse, parsedResponse) ==
  IF hookResponse.status = 404 THEN TRUE
  ELSE LET quote == IF req.type = "EXACT_INPUT" THEN parsedResponse.amountOut
                    ELSE parsedResponse.amountIn
       IN quote = 0

----------------------------------------------------------------------------
(* WebhookQuoter.fetchQuote *)

responseTypeNoRequestIdCheck(req, hookResponse) ==
  LET parsed == fromRFQ(req, hookResponse.data, req.type)
  IN IF isNonQuote(req, hookResponse, parsed.response) THEN "NO_QUOTE"
     ELSE IF parsed.validation.error THEN "VALIDATION_ERROR"
     ELSE "OK"

\* the try block after both posts resolved: the responseType it reports
responseType(req, hookResponse) ==
  LET parsed == fromRFQ(req, hookResponse.data, req.type)
  IN IF isNonQuote(req, hookResponse, parsed.response) THEN "NO_QUOTE"
     ELSE IF parsed.validation.error THEN "VALIDATION_ERROR"
     ELSE IF parsed.response.requestId # req.requestId THEN "REQUEST_ID_MISMATCH"
     ELSE "OK"

\* the catch block: the responseType it reports for the error e
catchResponseType(e) ==
  IF e.kind = "AxiosError"
  THEN (IF e.code = "ECONNABORTED" THEN "TIMEOUT" ELSE "HTTP_ERROR")
  ELSE "OTHER_ERROR"

Event(tag) == [responseType |-> tag, delivered |-> FALSE]

chainIdNotConfiguredUnlessAllowListed(e, req) ==
  /\ "chainIds" \in DOMAIN e
  /\ req.tokenInChainId \notin e["chainIds"]
  /\ e.hash \notin ALLOW_LIST

\* the chain-id guard at the top of fetchQuote
chainIdNotConfigured(e, req) ==
  "chainIds" \in DOMAIN e /\ req.tokenInChainId \notin e["chainIds"]

\* a rejection that takes down every fetchQuote still waiting for its posts
AfterSettlementAbortsOthers(h, p, o, rejection) ==
  IF rejection.kind # "none"
  THEN /\ fpc' = [g \in Hashes |-> IF g = h \/ fpc[g] = "posted" THEN "catchReport" ELSE fpc[g]]
       /\ events' = [g \in Hashes |->
                       IF g = h \/ fpc[g] = "posted"
                       THEN Append(events[g], Event(catchResponseType(rejection)))
                       ELSE events[g]]
  ELSE IF p.kind = "response" /\ o.kind = "response"
  THEN /\ fpc' = [fpc EXCEPT ![h] = "report"]
       /\ events' = [events EXCEPT ![h] = Append(@, Event(responseType(request, p)))]
  ELSE UNCHANGED <<fpc, events>>

AfterSettlementReportsErrorTwice(h, p, o, rejection) ==
  IF rejection.kind # "none"
  THEN /\ fpc' = [fpc EXCEPT ![h] = "catchReport"]
       /\ events' = [events EXCEPT ![h] =
                       Append(Append(@, Event(catchResponseType(rejection))),
                              Event("OTHER_ERROR"))]
  ELSE IF p.kind = "response" /\ o.kind = "response"
  THEN /\ fpc' = [fpc EXCEPT ![h] = "report"]
       /\ events' = [events EXCEPT ![h] = Append(@, Event(responseType(request, p)))]
  ELSE UNCHANGED <<fpc, events>>

\* Promise.all([primary, opposing]) settles for endpoint h once p and o are the
\* settlements so far: it rejects with the first rejection, resolves when both
\* have resolved, and is pending otherwise
AfterSettlement(h, p, o, rejection) ==
  IF rejection.kind # "none"
  THEN /\ fpc' = [fpc EXCEPT ![h] = "catchReport"]
       /\ events' = [events EXCEPT ![h] = Append(@, Event(catchResponseType(rejection)))]
  ELSE IF p.kind = "response" /\ o.kind = "response"
  THEN /\ fpc' = [fpc EXCEPT ![h] = "report"]
       /\ events' = [events EXCEPT ![h] = Append(@, Event(responseType(request, p)))]
  ELSE UNCHANGED <<fpc, events>>

\* the primary axios.post settles with r
PrimarySettles(h, r) ==
  /\ fpc[h] = "posted"
  /\ primary[h] = Pending
  /\ primary' = [primary EXCEPT ![h] = r]
  /\ AfterSettlement(h, r, opposite[h], IF r.kind = "response" THEN None ELSE r)
  /\ UNCHANGED <<s3doc, putLog, cacheVars, now, directory, callVars, eligVars, pc, request, opposite,
                 ret, httpCalls, result>>

\* the opposing axios.post settles with r
OppositeSettles(h, r) ==
  /\ fpc[h] = "posted"
  /\ opposite[h] = Pending
  /\ opposite' = [opposite EXCEPT ![h] = r]
  /\ AfterSettlement(h, primary[h], r, IF r.kind = "response" THEN None ELSE r)
  /\ UNCHANGED <<s3doc, putLog, cacheVars, now, directory, callVars, eligVars, pc, request, primary,
                 ret, httpCalls, result>>

MarkDelivered(evs) == [evs EXCEPT ![Len(evs)].delivered = TRUE]

\* what the try block returns once its event is sent
tryReturn(req, hookResponse, tag) ==
  IF tag = "OK" THEN fromRFQ(req, hookResponse.data, req.type).response ELSE Null

\* the awaited sendAnalyticsEvent resolves: fetchQuote runs to its return
sendAnalyticsEventResolves(h) ==
  /\ fpc[h] \in {"report", "catchReport"}
  /\ events' = [events EXCEPT ![h] = MarkDelivered(@)]
  /\ ret' = [ret EXCEPT ![h] =
               IF fpc[h] = "report"
               THEN tryReturn(request, primary[h], events[h][Len(events[h])].responseType)
               ELSE Null]
  /\ fpc' = [fpc EXCEPT ![h] = "done"]
  /\ UNCHANGED <<s3doc, putLog, cacheVars, now, directory, callVars, eligVars, pc, request, primary,
                 opposite, httpCalls, result>>

Rejected == [kind |-> "rejected"]

\* the awaited sendAnalyticsEvent rejects: inside the try block the catch block
\* takes over, inside the catch block fetchQuote itself rejects
sendAnalyticsEventRejects(h) ==
  /\ fpc[h] \in {"report", "catchReport"}
  /\ IF fpc[h] = "report"
     THEN /\ events' = [events EXCEPT ![h] = Append(@, Event(catchResponseType(OtherError)))]
          /\ fpc' = [fpc EXCEPT ![h] = "catchReport"]
          /\ UNCHANGED ret
     ELSE /\ ret' = [ret EXCEPT ![h] = Rejected]
          /\ fpc' = [fpc EXCEPT ![h] = "done"]
          /\ UNCHANGED events
  /\ UNCHANGED <<s3doc, putLog, cacheVars, now, directory, callVars, eligVars, pc, request, primary,
                 opposite, httpCalls, result>>

----------------------------------------------------------------------------
(* WebhookQuoter.quote *)

\* the callback of endpoints.filter in quote
notExcluded(e, req) ==
  \/ e.endpoint \notin DOMAIN endpointToAddrsMap
  \/ req.swapper \notin endpointToAddrsMap[e.endpoint]

\* the endpoints quote fans out to: the filter call builds a new array that is
\* dropped, and the local endpoints keeps every eligible endpoint
fanOutEndpoints(eps, req) ==
  LET keep(e) == notExcluded(e, req)
      filtered == SelectSeq(eps, keep)
  IN eps

NoFetch == [h \in Hashes |-> "idle"]
NoSettlement == [h \in Hashes |-> Pending]
NoEvents == [h \in Hashes |-> <<>>]
NoReturn == [h \in Hashes |-> None]

\* handleRequest: fromRequestBody, getBestQuote, quote up to the first await of
\* getEligibleEndpoints
handleRequest(req) ==
  /\ pc \in {"idle", "done"}
  /\ \A h \in Hashes : fpc[h] \in {"idle", "done"}
  /\ request' = req
  /\ pc' = "eligible"
  /\ BeginGetEligible
  /\ fpc' = NoFetch
  /\ primary' = NoSettlement
  /\ opposite' = NoSettlement
  /\ events' = NoEvents
  /\ ret' = NoReturn
  /\ httpCalls' = {}
  /\ result' = None
  /\ UNCHANGED <<s3doc, putLog, cacheVars, now, directory, callVars>>

\* quote after getEligibleEndpoints returned: the exclusion map, the filter, and
\* every fetchQuote up to its first await
dispatch ==
  /\ pc = "eligible"
  /\ eligPc = "returned"
  /\ LET eps == fanOutEndpoints(endpoints, request)
         called == {eps[i] : i \in {j \in DOMAIN eps : ~chainIdNotConfigured(eps[j], request)}}
         skipped == {eps[i] : i \in {j \in DOMAIN eps : chainIdNotConfigured(eps[j], request)}}
     IN /\ fpc' = [h \in Hashes |->
                     IF h \in {e.hash : e \in called} THEN "posted"
                     ELSE IF h \in {e.hash : e \in skipped} THEN "done"
                     ELSE "idle"]
        /\ ret' = [h \in Hashes |-> IF h \in {e.hash : e \in skipped} THEN Null ELSE None]
        /\ httpCalls' = {<<e.endpoint, side>> : e \in called, side \in {"primary", "opposing"}}
        /\ endpoints' = eps
  /\ pc' = "dispatched"
  /\ eligPc' = "none"
  /\ UNCHANGED <<s3doc, putLog, cacheVars, now, directory, callVars, s3Res, config, request, primary,
                 opposite, events, result>>

----------------------------------------------------------------------------
(* getBestQuote and the rest of handleRequest *)

\* the quoters the injector builds: one WebhookQuoter
Quoters == <<"WebhookQuoter">>

Array(items) == [kind |-> "Array", items |-> items]
TypeError == [kind |-> "TypeError"]

\* x.amountOut is defined
hasAmountOut(x) == x.kind = "QuoteResponse"

\* the reducer of getBestQuote
reducer(bestQuote, quote) ==
  IF bestQuote.kind = "TypeError" THEN bestQuote
  ELSE IF bestQuote = Null THEN quote
  ELSE IF ~hasAmountOut(quote) THEN TypeError
  ELSE IF ~hasAmountOut(bestQuote) THEN TypeError
  ELSE IF quote.amountOut > bestQuote.amountOut THEN quote
  ELSE bestQuote

RECURSIVE reduce(_, _)
reduce(responses, acc) ==
  IF responses = <<>> THEN acc
  ELSE reduce(Tail(responses), reducer(acc, Head(responses)))

\* responses holds what each quoter's quote resolved to
getBestQuote(responses) == reduce(responses, Null)

\* handleRequest once getBestQuote resolved
handlerResponse(bestQuote) ==
  IF bestQuote.kind = "TypeError" THEN [kind |-> "throw", error |-> "TypeError"]
  ELSE IF bestQuote = Null
  THEN [kind |-> "error", statusCode |-> 400, detail |-> "No quotes available"]
  ELSE IF ~hasAmountOut(bestQuote) THEN [kind |-> "throw", error |-> "TypeError"]
  ELSE [kind |-> "response", statusCode |-> 200, body |-> bestQuote]

\* the quotes quote returns: the non-null results, in endpoint order
quotes ==
  LET rets == [i \in DOMAIN endpoints |-> ret[endpoints[i].hash]]
      notNull(q) == q # Null
  IN SelectSeq(rets, notNull)

\* every fetchQuote resolved: quote resolves, getBestQuote reduces, handleRequest ends
quoteResolves ==
  /\ pc = "dispatched"
  /\ \A i \in DOMAIN endpoints : fpc[endpoints[i].hash] = "done"
  /\ \A i \in DOMAIN endpoints : ret[endpoints[i].hash] # Rejected
  /\ result' = handlerResponse(getBestQuote([q \in DOMAIN Quoters |-> Array(quotes)]))
  /\ pc' = "done"
  /\ UNCHANGED <<s3doc, putLog, cacheVars, now, directory, callVars, eligVars, request, fetchVars>>

\* a fetchQuote rejected: Promise.all, quote, getBestQuote and handleRequest reject
quoteRejects ==
  /\ pc = "dispatched"
  /\ \E i \in DOMAIN endpoints : ret[endpoints[i].hash] = Rejected
  /\ result' = [kind |-> "throw", error |-> "Error"]
  /\ pc' = "done"
  /\ UNCHANGED <<s3doc, putLog, cacheVars, now, directory, callVars, eligVars, request, fetchVars>>

----------------------------------------------------------------------------
(* Initial states *)

\* a CircuitBreakerConfiguration as the reader expects it, carrying the hash
ExternalRecord(h, rate, enabled) ==
  JSONstringifyObject(<<"hash", "fadeRate", "enabled">>,
                      [hash |-> h, fadeRate |-> rate, enabled |-> enabled])

\* documents found in the bucket at start
ExternalDocs ==
  { <<>>,
    <<ExternalRecord("hA", 10, TRUE)>>,
    <<ExternalRecord("hA", 50, FALSE)>>,
    <<ExternalRecord("hB", 10, TRUE)>>,
    <<ExternalRecord("hB", 50, FALSE)>>,
    <<ExternalRecord("hA", 50, FALSE), ExternalRecord("hB", 50, FALSE)>>,
    <<ExternalRecord("hB", 50, FALSE), ExternalRecord("hA", 10, TRUE)>>,
    <<ExternalRecord("hA", 50, FALSE), ExternalRecord("hA", 10, TRUE)>>,
    <<ExternalRecord("hA", 10, TRUE), ExternalRecord("hA", 50, FALSE)>> }

\* fill-rate maps handed to putConfigurations, as their entries in iteration order
FillRateMaps ==
  { <<>>,
    << <<"hA", 40>> >>,
    << <<"A", 10>>, <<"B", 50>> >> }

InitCommon ==
  /\ putLog = {}
  /\ gpc = [c \in Callers |-> "idle"]
  /\ gRes = [c \in Callers |-> <<>>]
  /\ fillers = <<>>
  /\ lastUpdatedTimestamp = 0
  /\ now = 0
  /\ eligPc = "none"
  /\ s3Res = <<>>
  /\ config = NoConfig
  /\ endpoints = <<>>
  /\ pc = "idle"
  /\ request = NoRequest
  /\ fpc = NoFetch
  /\ primary = NoSettlement
  /\ opposite = NoSettlement
  /\ events = NoEvents
  /\ ret = NoReturn
  /\ httpCalls = {}
  /\ result = None

InitElig ==
  /\ InitCommon
  /\ s3doc \in ExternalDocs
  /\ directory = <<EndpointA, EndpointB, EndpointC>>

NextElig ==
  \/ \E m \in FillRateMaps : putConfigurations(m)
  \/ \E d \in TickSteps : Tick(d)
  \/ getEligibleEndpoints
  \/ S3GetObjectReturns
  \/ fetchConfigurationsDone
  \/ fetchConfigurationsThrows

SpecElig == InitElig /\ [][NextElig]_vars

\* the provider's writer alone: fill rates around the threshold, written over
\* whatever the bucket holds
PutFillRateMaps ==
  { <<>>,
    << <<"A", 39>> >>,
    << <<"A", 40>> >>,
    << <<"A", 41>> >>,
    << <<"A", 40>>, <<"B", 39>> >>,
    << <<"B", 0>>, <<"A", 100>> >> }

InitPut ==
  /\ InitCommon
  /\ s3doc \in ExternalDocs
  /\ directory = <<EndpointA, EndpointB>>

NextPut == \E m \in PutFillRateMaps : putConfigurations(m)

SpecPut == InitPut /\ [][NextPut]_vars

\* two callers of getConfigurations on one provider, the bucket rewritten
\* meanwhile
CacheFillRateMaps == { << <<"hA", 10>> >> }

InitCache ==
  /\ InitCommon
  /\ s3doc = <<ExternalRecord("hA", 50, FALSE)>>
  /\ directory = <<EndpointA, EndpointB>>

NextCache ==
  \/ \E m \in CacheFillRateMaps : putConfigurations(m)
  \/ \E d \in TickSteps : Tick(d)
  \/ \E c \in Callers : getConfigurations(c)
  \/ \E c \in Callers : clientSendResolves(c)
  \/ \E c \in Callers : clientSendRejects(c)
  \/ \E c \in Callers : fetchConfigurationsAssigns(c)
  \/ \E c \in Callers : getConfigurationsResumes(c)

SpecCache == InitCache /\ [][NextCache]_vars

----------------------------------------------------------------------------
(* Requests and webhook answers *)

QuoteRequest(swapper, type, chainId) ==
  [requestId |-> "r1", swapper |-> swapper, type |-> type, tokenInChainId |-> chainId]

Timeout == AxiosError("ECONNABORTED")
BadResponse == AxiosError("ERR_BAD_RESPONSE")

\* end to end: the bucket is rewritten while requests are served by a
\* directory of three endpoints
Requests ==
  {QuoteRequest(s, "EXACT_INPUT", 1) : s \in Swappers}
    \cup {QuoteRequest("s2", "EXACT_INPUT", 137)}
StoredFillRateMaps == { << <<"A", 50>> >>, << <<"hA", 40>> >> }
PrimaryAnswers ==
  { Response(200, "r1", 100, 100, TRUE),
    Response(200, "r1", 100, 150, TRUE),
    Response(404, "r1", 0, 0, FALSE) }
OppositeAnswers == { Response(200, "r1", 100, 100, TRUE), Timeout }

Init ==
  /\ InitCommon
  /\ s3doc = <<ExternalRecord("hA", 50, FALSE)>>
  /\ directory = <<EndpointA, EndpointB, EndpointC>>

Next ==
  \/ \E m \in StoredFillRateMaps : putConfigurations(m)
  \/ \E req \in Requests : handleRequest(req)
  \/ S3GetObjectReturns
  \/ fetchConfigurationsDone
  \/ fetchConfigurationsThrows
  \/ dispatch
  \/ \E h \in Hashes, r \in PrimaryAnswers : PrimarySettles(h, r)
  \/ \E h \in Hashes, r \in OppositeAnswers : OppositeSettles(h, r)
  \/ \E h \in Hashes : sendAnalyticsEventResolves(h)
  \/ quoteResolves

Spec == Init /\ [][Next]_vars

\* one dispatch in detail: two endpoints, every kind of answer, reports that fail
DispatchRequests ==
  {QuoteRequest("s2", t, c) : t \in {"EXACT_INPUT", "EXACT_OUTPUT"}, c \in {1}}
DispatchPrimaryAnswers ==
  { Response(200, "r1", 100, 150, TRUE),
    Response(200, "r1", 100, 0, TRUE),
    Response(200, "r1", 0, 100, TRUE),
    Response(200, "r1", 100, 100, FALSE),
    Response(200, "r2", 100, 100, TRUE),
    Response(200, "r2", 100, 100, FALSE),
    Response(200, "r2", 0, 0, TRUE),
    Response(404, "r1", 100, 100, TRUE),
    Response(404, "r2", 0, 0, FALSE),
    Timeout,
    BadResponse }
DispatchOppositeAnswers ==
  { Response(200, "r1", 100, 100, TRUE),
    Response(404, "r1", 0, 0, FALSE),
    Timeout,
    BadResponse }

InitDispatch ==
  /\ InitCommon
  /\ s3doc = <<ExternalRecord("hC", 50, FALSE)>>
  /\ directory = <<EndpointA, EndpointB>>

NextDispatch ==
  \/ \E req \in DispatchRequests : handleRequest(req)
  \/ S3GetObjectReturns
  \/ fetchConfigurationsDone
  \/ fetchConfigurationsThrows
  \/ dispatch
  \/ \E h \in Hashes, r \in DispatchPrimaryAnswers : PrimarySettles(h, r)
  \/ \E h \in Hashes, r \in DispatchOppositeAnswers : OppositeSettles(h, r)
  \/ \E h \in Hashes : sendAnalyticsEventResolves(h)
  \/ \E h \in Hashes : sendAnalyticsEventRejects(h)
  \/ quoteResolves
  \/ quoteRejects

SpecDispatch == InitDispatch /\ [][NextDispatch]_vars

\* the same dispatch with an analytics transport that settles every report
NextReport ==
  \/ \E req \in DispatchRequests : handleRequest(req)
  \/ S3GetObjectReturns
  \/ fetchConfigurationsDone
  \/ fetchConfigurationsThrows
  \/ dispatch
  \/ \E h \in Hashes, r \in DispatchPrimaryAnswers : PrimarySettles(h, r)
  \/ \E h \in Hashes, r \in DispatchOppositeAnswers : OppositeSettles(h, r)
  \/ \E h \in Hashes : sendAnalyticsEventResolves(h)
  \/ quoteResolves

SpecReport == InitDispatch /\ [][NextReport]_vars

----------------------------------------------------------------------------
(* Properties *)

Dispatched == pc \in {"dispatched", "done"}
Called(e) == \E side \in {"primary", "opposing"} : <<e.endpoint, side>> \in httpCalls
InDirectory(e) == \E i \in DOMAIN directory : directory[i] = e
Returned(e) == \E i \in DOMAIN endpoints : endpoints[i] = e

\* the records of the snapshot that carry hash h, by position
RecordsFor(snapshot, h) ==
  {i \in DOMAIN snapshot : "hash" \in DOMAIN snapshot[i] /\ snapshot[i]["hash"] = h}
Last(S) == CHOOSE i \in S : \A j \in S : j <= i

\* the answer is an explicit non-quote for the request: 404, or a zero amount on
\* the side the request asks for
IsNonQuoteAnswer(req, answer) ==
  \/ answer.status = 404
  \/ (req.type = "EXACT_INPUT" /\ answer.data.amountOut = 0)
  \/ (req.type = "EXACT_OUTPUT" /\ answer.data.amountIn = 0)

Tags(h) == {events[h][k].responseType : k \in DOMAIN events[h]}

\* C1: an endpoint whose exclusion set contains request.swapper gets no HTTP
\* call and contributes no quote.
C1_ExcludedEndpointNotCalled ==
  \A e \in AllEndpoints :
    (/\ Dispatched
     /\ e.endpoint \in DOMAIN endpointToAddrsMap
     /\ request.swapper \in endpointToAddrsMap[e.endpoint])
    => (~Called(e) /\ ret[e.hash].kind # "QuoteResponse")

\* C2: every allow-listed endpoint of the directory is in the list that
\* getEligibleEndpoints returns, whatever the snapshot holds and also when the
\* fetch failed.
C2_AllowListAlwaysEligible ==
  eligPc = "returned" =>
    \A e \in AllEndpoints : (InDirectory(e) /\ e.hash \in ALLOW_LIST) => Returned(e)

\* C2 witness: the snapshot disables allow-listed B, and B is returned.
C2_Witness ==
  /\ eligPc = "returned"
  /\ config.state = "available"
  /\ RecordsFor(config.snapshot, "hB") # {}
  /\ \A i \in RecordsFor(config.snapshot, "hB") : ~config.snapshot[i]["enabled"]
  /\ Returned(EndpointB)

\* C3: with the snapshot available, an endpoint outside the allow-list is
\* returned exactly when the snapshot has no record for its hash or the record
\* for its hash (the last one, should the document repeat a hash) is enabled.
C3_AdmissionDecidesOthers ==
  (eligPc = "returned" /\ config.state = "available") =>
    \A e \in AllEndpoints :
      (InDirectory(e) /\ e.hash \notin ALLOW_LIST) =>
        LET recs == RecordsFor(config.snapshot, e.hash)
        IN Returned(e) <=> (recs = {} \/ config.snapshot[Last(recs)]["enabled"])

\* C3 witness: A is disabled in the snapshot and left out, C has no record and
\* is returned.
C3_Witness ==
  /\ eligPc = "returned"
  /\ config.state = "available"
  /\ RecordsFor(config.snapshot, "hA") # {}
  /\ ~Returned(EndpointA)
  /\ RecordsFor(config.snapshot, "hC") = {}
  /\ Returned(EndpointC)

\* C4: once the snapshot written by putConfigurations records an endpoint
\* outside the allow-list with a fade rate of 0.4 or more, a quote that reads
\* that snapshot makes no call to the endpoint and gets no outcome from it.
C4_FadedEndpointNotDispatched ==
  \A e \in AllEndpoints :
    (/\ Dispatched
     /\ config.state = "available"
     /\ e.hash \notin ALLOW_LIST
     /\ \E i \in DOMAIN config.snapshot :
          /\ "name" \in DOMAIN config.snapshot[i]
          /\ config.snapshot[i]["name"] \in {e.name, e.hash}
          /\ config.snapshot[i]["fadeRate"] >= FILL_RATE_THRESHOLD)
    => (~Called(e) /\ events[e.hash] = <<>> /\ ret[e.hash] = None)

\* C5: when the refetch throws, getEligibleEndpoints still returns, and it
\* returns every endpoint of the directory.
C5_FetchFailureReturnsAll ==
  config = Unavailable => (eligPc = "returned" /\ endpoints = directory)

\* C5 witness: the refetch failed over a stale cache, and the whole directory
\* is returned.
C5_Witness ==
  /\ config = Unavailable
  /\ eligPc = "returned"
  /\ Len(fillers) > 0
  /\ endpoints = directory
  /\ Len(directory) > 0

\* C6: the request never ends in an exception: it ends with a selected quote
\* (200) or with "No quotes available".
C6_NoExceptionToCaller ==
  pc = "done" => result.kind \in {"response", "error"}

\* C7: the caller gets a valid quote whose amountOut is at least that of every
\* valid quote, the first such in iteration order, and "none" when there is no
\* valid quote.
C7_BestQuoteReturned ==
  pc = "done" =>
    IF quotes = <<>>
    THEN result.kind = "error"
    ELSE /\ result.kind = "response"
         /\ \E i \in DOMAIN quotes :
              /\ result.body = quotes[i]
              /\ \A j \in DOMAIN quotes : quotes[j].amountOut <= quotes[i].amountOut
              /\ \A j \in DOMAIN quotes :
                   quotes[j].amountOut = quotes[i].amountOut => i <= j

\* C8: a primary response that is a 404 or has a zero amount on the requested
\* side is classified NO_QUOTE and yields no quote.
C8_NonQuoteClassifiedNoQuote ==
  \A h \in Hashes :
    (/\ primary[h].kind = "response"
     /\ events[h] # <<>>
     /\ IsNonQuoteAnswer(request, primary[h]))
    => (events[h][1].responseType = "NO_QUOTE" /\ ret[h].kind # "QuoteResponse")

\* C9 as stated: a primary response with another requestId is always classified
\* REQUEST_ID_MISMATCH.
C9_MismatchAlwaysTagged ==
  \A h \in Hashes :
    (/\ primary[h].kind = "response"
     /\ events[h] # <<>>
     /\ primary[h].data.requestId # request.requestId)
    => events[h][1].responseType = "REQUEST_ID_MISMATCH"

\* C9 amended: a primary response with another requestId is never classified OK
\* and yields no quote; it is classified REQUEST_ID_MISMATCH exactly when the
\* opposing call answered too and the response is neither a non-quote nor a
\* validation failure; every quote fetchQuote returns carries the request's id.
C9_MismatchNeverOK ==
  \A h \in Hashes :
    /\ (/\ primary[h].kind = "response"
        /\ events[h] # <<>>
        /\ primary[h].data.requestId # request.requestId)
       => /\ "OK" \notin Tags(h)
          /\ ret[h].kind # "QuoteResponse"
          /\ (events[h][1].responseType = "REQUEST_ID_MISMATCH"
                <=> (/\ opposite[h].kind = "response"
                     /\ ~IsNonQuoteAnswer(request, primary[h])
                     /\ primary[h].data.valid))
    /\ ret[h].kind = "QuoteResponse" => ret[h].requestId = request.requestId

\* C9 witness: a valid, non-zero answer with another requestId ended as
\* REQUEST_ID_MISMATCH with no quote.
C9_Witness ==
  \E h \in Hashes :
    /\ fpc[h] = "done"
    /\ primary[h].kind = "response"
    /\ primary[h].data.requestId # request.requestId
    /\ primary[h].data.valid
    /\ events[h][1].responseType = "REQUEST_ID_MISMATCH"
    /\ ret[h] = Null

\* the tag the answers of endpoint h alone call for: a transport tag when one
\* of its two posts failed, the tag of its primary response when both answered,
\* none while it waits
TransportTag(x) == IF x.code = "ECONNABORTED" THEN "TIMEOUT" ELSE "HTTP_ERROR"
PrimaryTag(req, answer) ==
  IF IsNonQuoteAnswer(req, answer) THEN "NO_QUOTE"
  ELSE IF ~answer.data.valid THEN "VALIDATION_ERROR"
  ELSE IF answer.data.requestId # req.requestId THEN "REQUEST_ID_MISMATCH"
  ELSE "OK"
OwnTags(h) ==
  LET failed == {x \in {primary[h], opposite[h]} : x.kind = "AxiosError"}
  IN IF failed # {} THEN {TransportTag(x) : x \in failed}
     ELSE IF primary[h].kind = "response" /\ opposite[h].kind = "response"
     THEN {PrimaryTag(request, primary[h])}
     ELSE {}

\* C10: the outcome of an endpoint follows from the answers to its own two
\* posts and its own reports, whatever happens to the other endpoints: its
\* classification is the one its own answers call for, it returns a quote
\* exactly when that is OK and reported, the quote is its own primary answer,
\* and while it waits for its posts it can still receive them.
C10_EndpointOutcomesIndependent ==
  \A h \in Hashes :
    /\ events[h] = <<>> => OwnTags(h) = {}
    /\ events[h] # <<>> => events[h][1].responseType \in OwnTags(h)
    /\ ret[h].kind = "QuoteResponse"
         <=> (fpc[h] = "done" /\ events[h] = <<[responseType |-> "OK", delivered |-> TRUE]>>)
    /\ ret[h].kind = "QuoteResponse"
         => (/\ ret[h].amountOut = primary[h].data.amountOut
             /\ ret[h].amountIn = primary[h].data.amountIn)
    /\ fpc[h] = "posted"
         => \/ ENABLED PrimarySettles(h, Timeout)
            \/ ENABLED OppositeSettles(h, Timeout)

\* C10 witness: A timed out and was reported, B answered after that and its
\* quote was returned.
C10_Witness ==
  /\ fpc["hA"] = "done"
  /\ events["hA"][1].responseType = "TIMEOUT"
  /\ ret["hA"] = Null
  /\ fpc["hB"] = "done"
  /\ ret["hB"].kind = "QuoteResponse"

\* C11: the opposing call only feeds the log: once the primary post has
\* answered, the classification is the one the primary response calls for and
\* an OK response is returned as the quote, whatever the opposing post answers
\* and whether it answers or fails; the quote returned is never the opposing
\* one.
C11_OpposingCallIsAuxiliary ==
  \A h \in Hashes :
    /\ (primary[h].kind = "response" /\ events[h] # <<>>)
         => events[h][1].responseType = PrimaryTag(request, primary[h])
    /\ (/\ primary[h].kind = "response"
        /\ fpc[h] = "done"
        /\ PrimaryTag(request, primary[h]) = "OK"
        /\ \A k \in DOMAIN events[h] : events[h][k].delivered)
         => ret[h].kind = "QuoteResponse"
    /\ ret[h].kind = "QuoteResponse"
         => (/\ ret[h].amountOut = primary[h].data.amountOut
             /\ ret[h].amountIn = primary[h].data.amountIn)

\* C12: putConfigurations is idempotent and the body it stores depends on its
\* argument alone: all calls made with the same fill-rate map stored the same
\* body, whatever the object held before, and after a call the object holds
\* that body.
C12_PutIdempotent ==
  /\ \A a \in putLog, b \in putLog : a.fillRates = b.fillRates => a.body = b.body
  /\ putLog # {} => \E a \in putLog : s3doc = a.body

\* C12 witness: the same non-empty map was written once over an empty object
\* and once over records, and stored the same body both times.
C12_Witness ==
  \E a \in putLog, b \in putLog :
    /\ a.fillRates = b.fillRates
    /\ Len(a.fillRates) > 0
    /\ ~a.replaced
    /\ b.replaced
    /\ a.body = b.body
    /\ s3doc = a.body

\* C19: the body putConfigurations stores has exactly one record per entry of
\* the map, in order, with that entry's name and fade rate and with
\* enabled = (fadeRate < 0.4), so a rate of exactly 0.4 is disabled; nothing of
\* the previous document is kept.
C19_StoredRecordsFollowThreshold ==
  \A r \in putLog :
    LET doc == JSONparse(r.body)
    IN /\ Len(doc) = Len(r.fillRates)
       /\ \A i \in DOMAIN doc :
            /\ DOMAIN doc[i] = {"name", "fadeRate", "enabled"}
            /\ doc[i]["name"] = r.fillRates[i][1]
            /\ doc[i]["fadeRate"] = r.fillRates[i][2]
            /\ doc[i]["enabled"] <=> (doc[i]["fadeRate"] < FILL_RATE_THRESHOLD)
            /\ doc[i]["fadeRate"] = FILL_RATE_THRESHOLD => ~doc[i]["enabled"]

\* C19 witness: a map with a rate of exactly 0.4 and a rate just below it was
\* written over a document with records; the first is stored disabled, the
\* second enabled, and the object holds these two records only.
C19_Witness ==
  \E r \in putLog :
    /\ r.replaced
    /\ s3doc = r.body
    /\ Len(s3doc) = 2
    /\ JSONparse(s3doc)[1]["fadeRate"] = FILL_RATE_THRESHOLD
    /\ ~JSONparse(s3doc)[1]["enabled"]
    /\ JSONparse(s3doc)[2]["fadeRate"] = FILL_RATE_THRESHOLD - 1
    /\ JSONparse(s3doc)[2]["enabled"]

\* C13: a call of getConfigurations starts a fetch exactly when the cache is
\* empty or more than five minutes have passed since the last refresh, and
\* otherwise returns the cached snapshot without touching the bucket or the
\* cache; so a non-empty snapshot, when it is returned, is the cached one and
\* was installed at most five minutes earlier.
C13_RefetchExactlyWhenStale ==
  [][/\ getEligibleEndpoints =>
          /\ eligPc' = "fetching"
               <=> (Len(fillers) = 0 \/ now - lastUpdatedTimestamp > UPDATE_PERIOD_MS)
          /\ eligPc' = "returned"
               => (config' = Fetched(fillers) /\ UNCHANGED <<cacheVars, s3Res, s3doc>>)
     /\ ((getEligibleEndpoints \/ fetchConfigurationsDone)
           /\ eligPc' = "returned" /\ config'.state = "available"
           /\ Len(config'.snapshot) > 0)
          => /\ config'.snapshot = fillers'
             /\ now' - lastUpdatedTimestamp' >= 0
             /\ now' - lastUpdatedTimestamp' <= UPDATE_PERIOD_MS]_vars

\* C13 witness: a fetch is under way over a non-empty cache that is one
\* millisecond older than five minutes.
C13_Witness ==
  /\ eligPc = "fetching"
  /\ Len(fillers) > 0
  /\ now - lastUpdatedTimestamp = UPDATE_PERIOD_MS + 1

\* C20: a refetch that fails leaves fillers and lastUpdatedTimestamp as they
\* were, so the cache is still empty or stale and the next getConfigurations
\* call starts a fetch again.
C20_FailedRefetchKeepsCache ==
  /\ [][(eligPc = "fetching" /\ config' = Unavailable)
          => (fillers' = fillers /\ lastUpdatedTimestamp' = lastUpdatedTimestamp)]_vars
  /\ [](config = Unavailable
          => /\ Len(fillers) = 0 \/ now - lastUpdatedTimestamp > UPDATE_PERIOD_MS
             /\ (pc = "idle" /\ eligPc = "returned") => ENABLED (getEligibleEndpoints /\ eligPc' = "fetching"))

\* C20 witness: the refetch over a non-empty stale cache failed; the cache is
\* as stale as before.
C20_Witness ==
  /\ config = Unavailable
  /\ eligPc = "returned"
  /\ Len(fillers) > 0
  /\ now - lastUpdatedTimestamp > UPDATE_PERIOD_MS

\* the fetches of direct callers that are in flight: GetObject sent, the cache
\* not yet assigned
InFlight == {c \in Callers : gpc[c] \in {"fetching", "parsing"}}

\* C14: whatever the interleaving of concurrent getConfigurations calls on one
\* provider, at most one refresh fetch is in flight at any time.
C14_AtMostOneFetchInFlight == Cardinality(InFlight) <= 1

\* C15: there is no early exit: when the dispatch step completes, both posts
\* to every endpoint that was called have answered, failed or timed out, and
\* every such endpoint has its outcome computed and its fetchQuote finished,
\* also when another endpoint produced a quote earlier.
C15_NoEarlyExit ==
  pc = "done" =>
    \A e \in AllEndpoints :
      Called(e) => /\ primary[e.hash] # Pending
                   /\ opposite[e.hash] # Pending
                   /\ events[e.hash] # <<>>
                   /\ fpc[e.hash] = "done"

OutcomeTags ==
  {"OK", "NO_QUOTE", "VALIDATION_ERROR", "REQUEST_ID_MISMATCH", "TIMEOUT", "HTTP_ERROR",
   "OTHER_ERROR"}

C17_ReportIsFireAndForget ==
  \A h \in Hashes :
    /\ events[h] # <<>> => ret[h] # None
    /\ ret[h] # Rejected
    /\ (fpc[h] = "done" /\ events[h] # <<>> /\ events[h][1].responseType = "OK")
         => ret[h].kind = "QuoteResponse"

\* C18: an endpoint whose chain-id list does not contain the request's chain
\* id gets no primary and no opposing call, no outcome event and yields no
\* quote, whether it is allow-listed or admitted by the snapshot.
C18_ChainIdFilterExcludes ==
  \A e \in AllEndpoints :
    (/\ Dispatched
     /\ "chainIds" \in DOMAIN e
     /\ request.tokenInChainId \notin e["chainIds"])
    => /\ ~Called(e)
       /\ events[e.hash] = <<>>
       /\ ret[e.hash].kind # "QuoteResponse"
       /\ primary[e.hash] = Pending
       /\ opposite[e.hash] = Pending

\* C18 witness: a request on chain 137; allow-listed B and admitted C, both
\* limited to chain 1, are eligible and get no call, while A is called.
C18_Witness ==
  /\ Dispatched
  /\ request.tokenInChainId = 137
  /\ Returned(EndpointB)
  /\ Returned(EndpointC)
  /\ ~Called(EndpointB)
  /\ ~Called(EndpointC)
  /\ ret["hB"] = Null
  /\ ret["hC"] = Null
  /\ Called(EndpointA)

\* the snapshots of documents that putConfigurations has written so far: in
\* SpecCache these are newer than the document the bucket started with
Written == {JSONparse(r.body) : r \in putLog}

\* C21: with concurrent getConfigurations calls and the document rewritten
\* meanwhile, the cache never goes back: once it holds the rewritten document,
\* no fetch that read the document of before the rewrite replaces it.
C21_CacheNeverGoesBack ==
  [][(fillers \in Written /\ fillers' # fillers) => fillers' \in Written]_vars

====
